---- MODULE Spec2Model ----
(***************************************************************************)
(* pretrained/load_tf_weights.py: the conversion of a TensorFlow           *)
(* EfficientNet checkpoint into the tensors of a PyTorch model.            *)
(*                                                                         *)
(* load_efficientnet builds the conversion table (a dict from target       *)
(* tensor to checkpoint variable name) by merging partial tables, then     *)
(* load_param fetches, transposes, shape-checks and copies every entry,    *)
(* and the driver saves the model's state_dict.                            *)
(*                                                                         *)
(* Names are Python strings, modelled as TLA+ strings: \o is +, and the    *)
(* tests `in` and endswith are computed on the characters.  A dict is the  *)
(* sequence of its items in insertion order.  An array is its shape and    *)
(* its elements by (0-based) index tuple.                                  *)
(***************************************************************************)
EXTENDS Integers, Sequences, FiniteSets, TLC

VARIABLES
    model_name,              \* args.model_name
    blocks,                  \* model._blocks: per block, whether it has _expand_conv
    param,                   \* the model's tensors: target tensor -> array
    store,                   \* the checkpoint: name -> array or Absent, for the names read so far
    conversion_table,        \* load_efficientnet's conversion_table
    conversion_table_block,  \* load_efficientnet's conversion_table_block
    emitted,                 \* history: every (key, val) item of every partial table built so far
    i,                       \* the block loop's index
    pc,                      \* where the run is
    work,                    \* load_param's conversion_table
    phase,                   \* load_param: per item, how far its iteration has come
    tf_param,                \* load_param: per item, the array fetched (then transposed)
    error,                   \* the exception that ended the run, or None
    output                   \* the saved state_dict, or None

vars == <<model_name, blocks, param, store, conversion_table, conversion_table_block,
          emitted, i, pc, work, phase, tf_param, error, output>>

(***************************************************************************)
(* Bounds of the model.                                                    *)
(***************************************************************************)
\* The largest number of blocks of a model.
MaxBlocks == 2
\* The number of table items whose iterations interleave in SpecAnyOrder.
MaxPar == 2

None == [none |-> TRUE]

(***************************************************************************)
(* Strings.                                                                *)
(***************************************************************************)
\* pat in s
Contains(s, pat) ==
    \E o \in 1..(Len(s) - Len(pat) + 1) : SubSeq(s, o, o + Len(pat) - 1) = pat

\* s.endswith(pat)
EndsWith(s, pat) ==
    /\ Len(s) >= Len(pat)
    /\ SubSeq(s, Len(s) - Len(pat) + 1, Len(s)) = pat

Digit(d) ==
    CASE d = 0 -> "0" [] d = 1 -> "1" [] d = 2 -> "2" [] d = 3 -> "3" [] d = 4 -> "4"
      [] d = 5 -> "5" [] d = 6 -> "6" [] d = 7 -> "7" [] d = 8 -> "8" [] d = 9 -> "9"

\* str(n) of a non-negative int: its decimal digits
RECURSIVE str(_)
str(n) == IF n < 10 THEN Digit(n) ELSE str(n \div 10) \o Digit(n % 10)

(***************************************************************************)
(* Arrays (numpy.ndarray, torch.Tensor).                                   *)
(***************************************************************************)
RECURSIVE Indices(_)
Indices(shape) ==
    IF shape = <<>> THEN {<<>>}
    ELSE {<<h>> \o t : h \in 0..(Head(shape) - 1), t \in Indices(Tail(shape))}

\* numpy.transpose(a, axes) of an array whose rank is Len(axes): axis k of the
\* result is axis axes[k] of a (axes are 0-based, as in the source).
AxisFrom(axes, ax) == CHOOSE k \in 1..Len(axes) : axes[k] = ax

NpTransposeAxes(a, axes) ==
    LET n      == Len(axes)
        nshape == [k \in 1..n |-> a.shape[axes[k] + 1]]
    IN  [shape |-> nshape,
         data  |-> [idx \in Indices(nshape) |->
                       a.data[[j \in 1..n |-> idx[AxisFrom(axes, j - 1)]]]]]

\* numpy.transpose raises ValueError ("axes don't match array") otherwise
AxesMatch(a, axes) == Len(axes) = Len(a.shape)

\* numpy.transpose(a): the axes reversed
Reversed(n) == [k \in 1..n |-> n - k]

NpTranspose(a) == NpTransposeAxes(a, Reversed(Len(a.shape)))

(***************************************************************************)
(* Dicts: the sequence of items [key, val] in insertion order.             *)
(***************************************************************************)
Item(k, v) == [key |-> k, val |-> v]

Keys(d) == {d[n].key : n \in 1..Len(d)}

HasKey(d, k) == \E n \in 1..Len(d) : d[n].key = k

Get(d, k) == d[CHOOSE n \in 1..Len(d) : d[n].key = k].val

\* A dict display { k1: v1, k2: v2, ... } and the unpacking {**d1, **d2}: a key
\* takes the place of its first item and the value of its last.
IsFirstOfKey(items, n) == \A m \in 1..(n - 1) : items[m].key # items[n].key

LastVal(items, k) ==
    items[CHOOSE n \in 1..Len(items) :
             /\ items[n].key = k
             /\ \A m \in (n + 1)..Len(items) : items[m].key # k].val

Dict(items) ==
    LET first == SelectSeq([n \in 1..Len(items) |-> n], LAMBDA n : IsFirstOfKey(items, n))
    IN  [j \in 1..Len(first) |-> Item(items[first[j]].key, LastVal(items, items[first[j]].key))]

\* merge = lambda dict1, dict2: {**dict1, **dict2}
MergeLeftWins(dict1, dict2) == Dict(dict2 \o dict1)

MergeConcat(dict1, dict2) == dict1 \o dict2

merge(dict1, dict2) == Dict(dict1 \o dict2)

(***************************************************************************)
(* The model's tensors.  T(b, m, p) is parameter or buffer p of module m   *)
(* of block b, or of the model itself when b is Top.  Python keys the      *)
(* tables by the tensor objects, which are distinct.                       *)
(***************************************************************************)
Top == 0 - 1

T(b, m, p) == <<b, m, p>>

BatchNormTensors == {"bias", "weight", "running_mean", "running_var"}

\* Tensors of the model itself: stem, head, classifier; and a buffer of the
\* state_dict that no table names.
TopTensors ==
    {T(Top, "_conv_stem", "weight"), T(Top, "_conv_head", "weight"),
     T(Top, "_fc", "bias"), T(Top, "_fc", "weight"),
     T(Top, "_bn0", "num_batches_tracked")}
    \cup {T(Top, m, p) : m \in {"_bn0", "_bn1"}, p \in BatchNormTensors}

\* Tensors of block b: a block with an expand convolution also has _bn0.
BlockTensors(b, expand) ==
    {T(b, "_project_conv", "weight"), T(b, "_depthwise_conv", "weight"),
     T(b, "_se_reduce", "bias"), T(b, "_se_reduce", "weight"),
     T(b, "_se_expand", "bias"), T(b, "_se_expand", "weight")}
    \cup {T(b, m, p) : m \in {"_bn1", "_bn2"}, p \in BatchNormTensors}
    \cup (IF expand
          THEN {T(b, "_expand_conv", "weight")}
               \cup {T(b, "_bn0", p) : p \in BatchNormTensors}
          ELSE {})

ModelTensors(bl) ==
    TopTensors \cup UNION {BlockTensors(b - 1, bl[b]) : b \in 1..Len(bl)}

(***************************************************************************)
(* load_efficientnet: the partial tables.                                  *)
(***************************************************************************)
conversion_table_for_weights_outside_blocks ==
    Dict(<<
        Item(T(Top, "_conv_stem", "weight"), "stem/conv2d/kernel"),
        Item(T(Top, "_bn0", "bias"), "stem/tpu_batch_normalization/beta"),
        Item(T(Top, "_bn0", "weight"), "stem/tpu_batch_normalization/gamma"),
        Item(T(Top, "_bn0", "running_mean"), "stem/tpu_batch_normalization/moving_mean"),
        Item(T(Top, "_bn0", "running_var"), "stem/tpu_batch_normalization/moving_variance"),
        Item(T(Top, "_conv_head", "weight"), "head/conv2d/kernel"),
        Item(T(Top, "_bn1", "bias"), "head/tpu_batch_normalization/beta"),
        Item(T(Top, "_bn1", "weight"), "head/tpu_batch_normalization/gamma"),
        Item(T(Top, "_bn1", "running_mean"), "head/tpu_batch_normalization/moving_mean"),
        Item(T(Top, "_bn1", "running_var"), "head/tpu_batch_normalization/moving_variance"),
        Item(T(Top, "_fc", "bias"), "head/dense/bias"),
        Item(T(Top, "_fc", "weight"), "head/dense/kernel")
    >>)

\* model._blocks[0] raises IndexError when the model has no block
HasBlock0(bl) == Len(bl) > 0

conversion_table_for_first_block ==
    Dict(<<
        Item(T(0, "_project_conv", "weight"), "blocks_0/conv2d/kernel"),
        Item(T(0, "_depthwise_conv", "weight"), "blocks_0/depthwise_conv2d/depthwise_kernel"),
        Item(T(0, "_se_reduce", "bias"), "blocks_0/se/conv2d/bias"),
        Item(T(0, "_se_reduce", "weight"), "blocks_0/se/conv2d/kernel"),
        Item(T(0, "_se_expand", "bias"), "blocks_0/se/conv2d_1/bias"),
        Item(T(0, "_se_expand", "weight"), "blocks_0/se/conv2d_1/kernel"),
        Item(T(0, "_bn1", "bias"), "blocks_0/tpu_batch_normalization/beta"),
        Item(T(0, "_bn1", "weight"), "blocks_0/tpu_batch_normalization/gamma"),
        Item(T(0, "_bn1", "running_mean"), "blocks_0/tpu_batch_normalization/moving_mean"),
        Item(T(0, "_bn1", "running_var"), "blocks_0/tpu_batch_normalization/moving_variance"),
        Item(T(0, "_bn2", "bias"), "blocks_0/tpu_batch_normalization_1/beta"),
        Item(T(0, "_bn2", "weight"), "blocks_0/tpu_batch_normalization_1/gamma"),
        Item(T(0, "_bn2", "running_mean"), "blocks_0/tpu_batch_normalization_1/moving_mean"),
        Item(T(0, "_bn2", "running_var"), "blocks_0/tpu_batch_normalization_1/moving_variance")
    >>)

\* '_expand_conv.weight' not in [n for n, p in model._blocks[i].named_parameters()]
is_first_block(bl, n) == ~bl[n + 1]

\* Faulty variant: _bn1.bias written where _bn1.weight is meant
NoExpandTableDuplicateKey(n) ==
    Dict(<<
        Item(T(n, "_project_conv", "weight"), "blocks_" \o str(n) \o "/conv2d/kernel"),
        Item(T(n, "_depthwise_conv", "weight"), "blocks_" \o str(n) \o "/depthwise_conv2d/depthwise_kernel"),
        Item(T(n, "_se_reduce", "bias"), "blocks_" \o str(n) \o "/se/conv2d/bias"),
        Item(T(n, "_se_reduce", "weight"), "blocks_" \o str(n) \o "/se/conv2d/kernel"),
        Item(T(n, "_se_expand", "bias"), "blocks_" \o str(n) \o "/se/conv2d_1/bias"),
        Item(T(n, "_se_expand", "weight"), "blocks_" \o str(n) \o "/se/conv2d_1/kernel"),
        Item(T(n, "_bn1", "bias"), "blocks_" \o str(n) \o "/tpu_batch_normalization/beta"),
        Item(T(n, "_bn1", "bias"), "blocks_" \o str(n) \o "/tpu_batch_normalization/gamma"),
        Item(T(n, "_bn1", "running_mean"), "blocks_" \o str(n) \o "/tpu_batch_normalization/moving_mean"),
        Item(T(n, "_bn1", "running_var"), "blocks_" \o str(n) \o "/tpu_batch_normalization/moving_variance"),
        Item(T(n, "_bn2", "bias"), "blocks_" \o str(n) \o "/tpu_batch_normalization_1/beta"),
        Item(T(n, "_bn2", "weight"), "blocks_" \o str(n) \o "/tpu_batch_normalization_1/gamma"),
        Item(T(n, "_bn2", "running_mean"), "blocks_" \o str(n) \o "/tpu_batch_normalization_1/moving_mean"),
        Item(T(n, "_bn2", "running_var"), "blocks_" \o str(n) \o "/tpu_batch_normalization_1/moving_variance")
    >>)

\* the table of a block without an expand convolution
NoExpandTable(n) ==
    Dict(<<
        Item(T(n, "_project_conv", "weight"), "blocks_" \o str(n) \o "/conv2d/kernel"),
        Item(T(n, "_depthwise_conv", "weight"), "blocks_" \o str(n) \o "/depthwise_conv2d/depthwise_kernel"),
        Item(T(n, "_se_reduce", "bias"), "blocks_" \o str(n) \o "/se/conv2d/bias"),
        Item(T(n, "_se_reduce", "weight"), "blocks_" \o str(n) \o "/se/conv2d/kernel"),
        Item(T(n, "_se_expand", "bias"), "blocks_" \o str(n) \o "/se/conv2d_1/bias"),
        Item(T(n, "_se_expand", "weight"), "blocks_" \o str(n) \o "/se/conv2d_1/kernel"),
        Item(T(n, "_bn1", "bias"), "blocks_" \o str(n) \o "/tpu_batch_normalization/beta"),
        Item(T(n, "_bn1", "weight"), "blocks_" \o str(n) \o "/tpu_batch_normalization/gamma"),
        Item(T(n, "_bn1", "running_mean"), "blocks_" \o str(n) \o "/tpu_batch_normalization/moving_mean"),
        Item(T(n, "_bn1", "running_var"), "blocks_" \o str(n) \o "/tpu_batch_normalization/moving_variance"),
        Item(T(n, "_bn2", "bias"), "blocks_" \o str(n) \o "/tpu_batch_normalization_1/beta"),
        Item(T(n, "_bn2", "weight"), "blocks_" \o str(n) \o "/tpu_batch_normalization_1/gamma"),
        Item(T(n, "_bn2", "running_mean"), "blocks_" \o str(n) \o "/tpu_batch_normalization_1/moving_mean"),
        Item(T(n, "_bn2", "running_var"), "blocks_" \o str(n) \o "/tpu_batch_normalization_1/moving_variance")
    >>)

\* Faulty variant: the names of the expand and project kernels exchanged
ExpandTableConvSwapped(n) ==
    Dict(<<
        Item(T(n, "_expand_conv", "weight"), "blocks_" \o str(n) \o "/conv2d_1/kernel"),
        Item(T(n, "_project_conv", "weight"), "blocks_" \o str(n) \o "/conv2d/kernel"),
        Item(T(n, "_depthwise_conv", "weight"), "blocks_" \o str(n) \o "/depthwise_conv2d/depthwise_kernel"),
        Item(T(n, "_se_reduce", "bias"), "blocks_" \o str(n) \o "/se/conv2d/bias"),
        Item(T(n, "_se_reduce", "weight"), "blocks_" \o str(n) \o "/se/conv2d/kernel"),
        Item(T(n, "_se_expand", "bias"), "blocks_" \o str(n) \o "/se/conv2d_1/bias"),
        Item(T(n, "_se_expand", "weight"), "blocks_" \o str(n) \o "/se/conv2d_1/kernel"),
        Item(T(n, "_bn0", "bias"), "blocks_" \o str(n) \o "/tpu_batch_normalization/beta"),
        Item(T(n, "_bn0", "weight"), "blocks_" \o str(n) \o "/tpu_batch_normalization/gamma"),
        Item(T(n, "_bn0", "running_mean"), "blocks_" \o str(n) \o "/tpu_batch_normalization/moving_mean"),
        Item(T(n, "_bn0", "running_var"), "blocks_" \o str(n) \o "/tpu_batch_normalization/moving_variance"),
        Item(T(n, "_bn1", "bias"), "blocks_" \o str(n) \o "/tpu_batch_normalization_1/beta"),
        Item(T(n, "_bn1", "weight"), "blocks_" \o str(n) \o "/tpu_batch_normalization_1/gamma"),
        Item(T(n, "_bn1", "running_mean"), "blocks_" \o str(n) \o "/tpu_batch_normalization_1/moving_mean"),
        Item(T(n, "_bn1", "running_var"), "blocks_" \o str(n) \o "/tpu_batch_normalization_1/moving_variance"),
        Item(T(n, "_bn2", "bias"), "blocks_" \o str(n) \o "/tpu_batch_normalization_2/beta"),
        Item(T(n, "_bn2", "weight"), "blocks_" \o str(n) \o "/tpu_batch_normalization_2/gamma"),
        Item(T(n, "_bn2", "running_mean"), "blocks_" \o str(n) \o "/tpu_batch_normalization_2/moving_mean"),
        Item(T(n, "_bn2", "running_var"), "blocks_" \o str(n) \o "/tpu_batch_normalization_2/moving_variance")
    >>)

\* the table of a block with an expand convolution
ExpandTable(n) ==
    Dict(<<
        Item(T(n, "_expand_conv", "weight"), "blocks_" \o str(n) \o "/conv2d/kernel"),
        Item(T(n, "_project_conv", "weight"), "blocks_" \o str(n) \o "/conv2d_1/kernel"),
        Item(T(n, "_depthwise_conv", "weight"), "blocks_" \o str(n) \o "/depthwise_conv2d/depthwise_kernel"),
        Item(T(n, "_se_reduce", "bias"), "blocks_" \o str(n) \o "/se/conv2d/bias"),
        Item(T(n, "_se_reduce", "weight"), "blocks_" \o str(n) \o "/se/conv2d/kernel"),
        Item(T(n, "_se_expand", "bias"), "blocks_" \o str(n) \o "/se/conv2d_1/bias"),
        Item(T(n, "_se_expand", "weight"), "blocks_" \o str(n) \o "/se/conv2d_1/kernel"),
        Item(T(n, "_bn0", "bias"), "blocks_" \o str(n) \o "/tpu_batch_normalization/beta"),
        Item(T(n, "_bn0", "weight"), "blocks_" \o str(n) \o "/tpu_batch_normalization/gamma"),
        Item(T(n, "_bn0", "running_mean"), "blocks_" \o str(n) \o "/tpu_batch_normalization/moving_mean"),
        Item(T(n, "_bn0", "running_var"), "blocks_" \o str(n) \o "/tpu_batch_normalization/moving_variance"),
        Item(T(n, "_bn1", "bias"), "blocks_" \o str(n) \o "/tpu_batch_normalization_1/beta"),
        Item(T(n, "_bn1", "weight"), "blocks_" \o str(n) \o "/tpu_batch_normalization_1/gamma"),
        Item(T(n, "_bn1", "running_mean"), "blocks_" \o str(n) \o "/tpu_batch_normalization_1/moving_mean"),
        Item(T(n, "_bn1", "running_var"), "blocks_" \o str(n) \o "/tpu_batch_normalization_1/moving_variance"),
        Item(T(n, "_bn2", "bias"), "blocks_" \o str(n) \o "/tpu_batch_normalization_2/beta"),
        Item(T(n, "_bn2", "weight"), "blocks_" \o str(n) \o "/tpu_batch_normalization_2/gamma"),
        Item(T(n, "_bn2", "running_mean"), "blocks_" \o str(n) \o "/tpu_batch_normalization_2/moving_mean"),
        Item(T(n, "_bn2", "running_var"), "blocks_" \o str(n) \o "/tpu_batch_normalization_2/moving_variance")
    >>)

\* for i in range(len(model._blocks)): the table of block n
BlockTable(bl, n) == IF is_first_block(bl, n) THEN NoExpandTable(n) ELSE ExpandTable(n)

(***************************************************************************)
(* The inputs: the model build_model returns and the checkpoint.           *)
(***************************************************************************)
ConvModules ==
    {"_conv_stem", "_conv_head", "_expand_conv", "_project_conv", "_se_reduce", "_se_expand"}

\* The shape of a tensor of the model: convolution weights are
\* (out, in, height, width), the classifier's weight is (out, in).
TargetShape(t) ==
    IF t[3] = "weight" /\ t[2] \in ConvModules THEN <<2, 1, 1, 2>>
    ELSE IF t[3] = "weight" /\ t[2] = "_depthwise_conv" THEN <<2, 1, 1, 2>>
    ELSE IF t[3] = "weight" /\ t[2] = "_fc" THEN <<3, 2>>
    ELSE IF t[3] = "num_batches_tracked" THEN <<>>
    ELSE <<2>>

\* The shape of the checkpoint's variable for a tensor: convolution kernels are
\* (height, width, in, out), depthwise kernels (height, width, channels,
\* multiplier), the dense kernel (in, out).
CheckpointShape(t) ==
    IF t[3] = "weight" /\ t[2] \in ConvModules THEN <<1, 2, 1, 2>>
    ELSE IF t[3] = "weight" /\ t[2] = "_depthwise_conv" THEN <<1, 2, 2, 1>>
    ELSE IF t[3] = "weight" /\ t[2] = "_fc" THEN <<2, 3>>
    ELSE <<2>>

\* The row-major position of an index tuple.
RECURSIVE Flat(_, _, _)
Flat(shape, idx, n) ==
    IF n = 0 THEN 0 ELSE Flat(shape, idx, n - 1) * shape[n] + idx[n]

\* An array of the given shape holding base, base + 1, ... in row-major order.
Arange(shape, base) ==
    [shape |-> shape,
     data  |-> [idx \in Indices(shape) |-> base + Flat(shape, idx, Len(shape))]]

Zeros(shape) == [shape |-> shape, data |-> [idx \in Indices(shape) |-> 0]]

\* The table after the iterations n, n + 1, ... of the block loop, from tbl.
RECURSIVE LoopTables(_, _, _)
LoopTables(tbl, bl, n) ==
    IF n = Len(bl) THEN tbl
    ELSE LoopTables(merge(tbl, BlockTable(bl, n)), bl, n + 1)

\* The table load_efficientnet hands to load_param.
FinalTable(bl) ==
    LoopTables(merge(merge(<<>>, conversion_table_for_weights_outside_blocks),
                     conversion_table_for_first_block), bl, 0)

ModelNames == {"efficientnet-b0", "conv-b0"}

BlockConfigs == UNION {[1..b -> BOOLEAN] : b \in 0..MaxBlocks}

\* The checkpoint is a file outside the program: what it holds under a name is
\* drawn when load_param first reads the name, and stays.  Under the name of a
\* tensor it may hold nothing, or an array of the shape the architecture gives
\* the variable, or one with a dimension too large, or one with an axis too many.
Absent == [absent |-> TRUE]

FaultKinds == {"dim", "rank"}

FaultyShape(shape, kind) ==
    IF kind = "dim" THEN [shape EXCEPT ![1] = shape[1] + 1] ELSE Append(shape, 1)

\* The array of item n: its elements are 100 * n, 100 * n + 1, ...
Contents(t, n) ==
    {Absent}
    \cup {Arange(CheckpointShape(t), 100 * n)}
    \cup {Arange(FaultyShape(CheckpointShape(t), kind), 100 * n) : kind \in FaultKinds}

InitInputs ==
    \E name \in ModelNames, bl \in BlockConfigs :
        /\ model_name = name
        /\ blocks = bl
        /\ param = [t \in ModelTensors(bl) |-> Zeros(TargetShape(t))]
        /\ store = <<>>

Init ==
    /\ InitInputs
    /\ conversion_table = <<>>
    /\ conversion_table_block = <<>>
    /\ emitted = {}
    /\ i = 0
    /\ pc = "outside"
    /\ work = <<>>
    /\ phase = <<>>
    /\ tf_param = <<>>
    /\ error = None
    /\ output = None

(***************************************************************************)
(* load_efficientnet.                                                      *)
(***************************************************************************)
Items(d) == {d[n] : n \in 1..Len(d)}

\* conversion_table = merge(conversion_table, conversion_table_for_weights_outside_blocks)
MergeOutside ==
    /\ pc = "outside"
    /\ conversion_table' = merge(conversion_table, conversion_table_for_weights_outside_blocks)
    /\ emitted' = emitted \cup Items(conversion_table_for_weights_outside_blocks)
    /\ pc' = "first"
    /\ UNCHANGED <<model_name, blocks, param, store, conversion_table_block, i, work, phase,
                   tf_param, error, output>>

\* conversion_table = merge(conversion_table, conversion_table_for_first_block)
MergeFirstBlock ==
    /\ pc = "first"
    /\ IF HasBlock0(blocks)
       THEN /\ conversion_table' = merge(conversion_table, conversion_table_for_first_block)
            /\ emitted' = emitted \cup Items(conversion_table_for_first_block)
            /\ pc' = "loop"
            /\ error' = error
       ELSE /\ pc' = "aborted"
            /\ error' = [kind |-> "IndexError"]
            /\ UNCHANGED <<conversion_table, emitted>>
    /\ i' = 0
    /\ UNCHANGED <<model_name, blocks, param, store, conversion_table_block, work, phase,
                   tf_param, output>>

\* one iteration of: for i in range(len(model._blocks))
LoopBlock ==
    /\ pc = "loop"
    /\ i < Len(blocks)
    /\ conversion_table_block' = BlockTable(blocks, i)
    /\ conversion_table' = merge(conversion_table, conversion_table_block')
    /\ emitted' = emitted \cup Items(conversion_table_block')
    /\ i' = i + 1
    /\ UNCHANGED <<model_name, blocks, param, store, pc, work, phase, tf_param, error, output>>

\* load_param(checkpoint_file, conversion_table, model_name)
CallLoadParam ==
    /\ pc = "loop"
    /\ i = Len(blocks)
    /\ work' = conversion_table
    /\ phase' = [n \in 1..Len(conversion_table) |-> "todo"]
    /\ tf_param' = [n \in 1..Len(conversion_table) |-> None]
    /\ pc' = "load"
    /\ UNCHANGED <<model_name, blocks, param, store, conversion_table, conversion_table_block,
                   emitted, i, error, output>>

(***************************************************************************)
(* load_param: one iteration of its loop, for item k of the table, in the  *)
(* four steps fetch, transpose, check, copy.                               *)
(***************************************************************************)
\* tf_param_name = str(model_name) + '/' + tf_param_name
TfParamName(name, val) == name \o "/" \o val

\* 'conv' in tf_param_name and 'kernel' in tf_param_name
IsConvKernel(nm) == Contains(nm, "conv") /\ Contains(nm, "kernel")

\* 'depthwise' in tf_param_name
NeverDepthwise(nm) == FALSE

IsDepthwise(nm) == Contains(nm, "depthwise")

\* the axes of np.transpose(tf_param, (3, 2, 0, 1))
ConvAxesSpatialSwapped == <<3, 2, 1, 0>>

ConvAxes == <<3, 2, 0, 1>>

\* the axes of np.transpose(tf_param, (1, 0, 2, 3))
DepthwiseAxes == <<1, 0, 2, 3>>

\* whether the transposition chosen for the name accepts the array
TransposeAccepts(nm, a) == IsConvKernel(nm) => AxesMatch(a, ConvAxes)

\* the array after the transposition chosen for the name
Transposed(nm, a) ==
    IF IsConvKernel(nm)
    THEN LET b == NpTransposeAxes(a, ConvAxes)
         IN  IF IsDepthwise(nm) THEN NpTransposeAxes(b, DepthwiseAxes) ELSE b
    ELSE IF EndsWith(nm, "kernel") THEN NpTranspose(a)
    ELSE a

\* pyt_param of: for pyt_param, tf_param_name in conversion_table.items()
ItemTensor(w, k) == w[k].key

\* pyt_param.size() == tf_param.shape
SameRank(size, shape) == Len(size) = Len(shape)

SizeEquals(size, shape) == size = shape

\* tf_param = tf.train.load_variable(checkpoint_file, tf_param_name)
Fetch(k) ==
    /\ pc = "load"
    /\ phase[k] = "todo"
    /\ LET nm == TfParamName(model_name, work[k].val)
       IN  \E v \in IF nm \in DOMAIN store THEN {store[nm]} ELSE Contents(work[k].key, k) :
               /\ store' = [n \in DOMAIN store \cup {nm} |-> IF n = nm THEN v ELSE store[n]]
               /\ IF v # Absent
                  THEN /\ tf_param' = [tf_param EXCEPT ![k] = v]
                       /\ phase' = [phase EXCEPT ![k] = "fetched"]
                       /\ UNCHANGED <<pc, error>>
                  ELSE /\ pc' = "aborted"
                       /\ error' = [kind |-> "NotFoundError", name |-> nm]
                       /\ UNCHANGED <<tf_param, phase>>
    /\ UNCHANGED <<model_name, blocks, param, conversion_table, conversion_table_block,
                   emitted, i, work, output>>

\* the if / elif of the transpositions
Transpose(k) ==
    /\ pc = "load"
    /\ phase[k] = "fetched"
    /\ LET nm == TfParamName(model_name, work[k].val)
       IN  IF TransposeAccepts(nm, tf_param[k])
           THEN /\ tf_param' = [tf_param EXCEPT ![k] = Transposed(nm, tf_param[k])]
                /\ phase' = [phase EXCEPT ![k] = "transposed"]
                /\ UNCHANGED <<pc, error>>
           ELSE /\ pc' = "aborted"
                /\ error' = [kind |-> "ValueError", name |-> nm]
                /\ UNCHANGED <<tf_param, phase>>
    /\ UNCHANGED <<model_name, blocks, param, store, conversion_table, conversion_table_block,
                   emitted, i, work, output>>

\* assert pyt_param.size() == tf_param.shape, 'Dim Mismatch: %s vs %s ; %s' % (...)
Check(k) ==
    /\ pc = "load"
    /\ phase[k] = "transposed"
    /\ IF SizeEquals(param[ItemTensor(work, k)].shape, tf_param[k].shape)
       THEN /\ phase' = [phase EXCEPT ![k] = "checked"]
            /\ UNCHANGED <<pc, error>>
       ELSE /\ pc' = "aborted"
            /\ error' = [kind   |-> "AssertionError",
                         size   |-> param[ItemTensor(work, k)].shape,
                         shape  |-> tf_param[k].shape,
                         name   |-> TfParamName(model_name, work[k].val)]
            /\ phase' = phase
    /\ UNCHANGED <<model_name, blocks, param, store, conversion_table, conversion_table_block,
                   emitted, i, work, tf_param, output>>

\* the array that pyt_param.data = torch.from_numpy(tf_param) stores for item k
OldestInFlight(tp, ph, k) ==
    tp[CHOOSE j \in 1..Len(ph) :
          /\ ph[j] \in {"fetched", "transposed", "checked"}
          /\ \A l \in 1..(j - 1) : ph[l] \notin {"fetched", "transposed", "checked"}]

FromNumpy(tp, ph, k) == tp[k]

\* the assignment of pyt_param.data comes after the assert
BeforeAssert(ph, k) == ph[k] = "transposed"

AfterAssert(ph, k) == ph[k] = "checked"

\* pyt_param.data = torch.from_numpy(tf_param)
Copy(k) ==
    /\ pc = "load"
    /\ AfterAssert(phase, k)
    /\ param' = [param EXCEPT ![ItemTensor(work, k)] = FromNumpy(tf_param, phase, k)]
    /\ phase' = [phase EXCEPT ![k] = "done"]
    /\ tf_param' = [tf_param EXCEPT ![k] = None]
    /\ UNCHANGED <<model_name, blocks, store, conversion_table, conversion_table_block,
                   emitted, i, pc, work, error, output>>

\* the for loop of load_param is exhausted
SomeDone(ph) == \E k \in 1..Len(ph) : ph[k] = "done"

Exhausted(ph) == \A k \in 1..Len(ph) : ph[k] = "done"

\* load_param and load_efficientnet return
Return ==
    /\ pc = "load"
    /\ Exhausted(phase)
    /\ pc' = "save"
    /\ UNCHANGED <<model_name, blocks, param, store, conversion_table, conversion_table_block,
                   emitted, i, work, phase, tf_param, error, output>>

\* torch.save(model.state_dict(), args.output_file)
Save ==
    /\ pc = "save"
    /\ output' = param
    /\ pc' = "done"
    /\ UNCHANGED <<model_name, blocks, param, store, conversion_table, conversion_table_block,
                   emitted, i, work, phase, tf_param, error>>

\* The loop takes its items one at a time, in the table's order: the item of the
\* iteration under way, or of the next one.
Cursor ==
    CHOOSE k \in 1..Len(work) : phase[k] # "done" /\ \A j \in 1..(k - 1) : phase[j] = "done"

Turn == IF pc = "load" /\ ~Exhausted(phase) THEN {Cursor} ELSE {}

Next ==
    \/ MergeOutside
    \/ MergeFirstBlock
    \/ LoopBlock
    \/ CallLoadParam
    \/ \E k \in Turn : Fetch(k)
    \/ \E k \in Turn : Transpose(k)
    \/ \E k \in Turn : Check(k)
    \/ \E k \in Turn : Copy(k)
    \/ Return
    \/ Save

Spec == Init /\ [][Next]_vars

(***************************************************************************)
(* load_param with its iterations in any order and interleaved.  It is     *)
(* called on a table of MaxPar consecutive items of the table that         *)
(* load_efficientnet builds for the model; the iterations, each with its   *)
(* own tf_param, take their steps in any order, on a checkpoint that holds *)
(* the variable of each item in the architecture's shape.  The models are   *)
(* those of MaxBlocks blocks: the table of a model with fewer blocks is a  *)
(* prefix of the table of one of them.                                     *)
(***************************************************************************)
InitAnyOrder ==
    /\ \E name \in ModelNames, bl \in [1..MaxBlocks -> BOOLEAN] :
        \E tbl \in {FinalTable(bl)} :
            \E o \in 1..(Len(tbl) - MaxPar + 1) :
                /\ model_name = name
                /\ blocks = bl
                /\ param = [t \in ModelTensors(bl) |-> Zeros(TargetShape(t))]
                /\ store = [nm \in {TfParamName(name, tbl[n].val) : n \in o..(o + MaxPar - 1)} |->
                              LET n == CHOOSE n \in o..(o + MaxPar - 1) :
                                           TfParamName(name, tbl[n].val) = nm
                              IN  Arange(CheckpointShape(tbl[n].key), 100 * (n - o + 1))]
                /\ work = SubSeq(tbl, o, o + MaxPar - 1)
    /\ conversion_table = <<>>
    /\ conversion_table_block = <<>>
    /\ emitted = {}
    /\ i = 0
    /\ phase = [n \in 1..MaxPar |-> "todo"]
    /\ tf_param = [n \in 1..MaxPar |-> None]
    /\ pc = "load"
    /\ error = None
    /\ output = None

NextAnyOrder ==
    \/ \E k \in 1..Len(work) : Fetch(k)
    \/ \E k \in 1..Len(work) : Transpose(k)
    \/ \E k \in 1..Len(work) : Check(k)
    \/ \E k \in 1..Len(work) : Copy(k)
    \/ Return

SpecAnyOrder == InitAnyOrder /\ [][NextAnyOrder]_vars

(***************************************************************************)
(* Properties of the table builder.                                        *)
(***************************************************************************)
\* The blocks whose loop iteration is over; the last of them is block i - 1.
BuiltBlocks == IF pc = "outside" \/ pc = "first" THEN {} ELSE 0..(i - 1)

\* The tables change while load_efficientnet builds them, and no longer once
\* load_param has started on its first item.
Building == pc \in {"outside", "first", "loop"} \/ (pc = "load" /\ phase[1] = "todo")

\* C1 as stated: for every block index, the table the loop of load_efficientnet
\* builds for that block has exactly 14 target->name pairs when the block has no
\* expand convolution and exactly 18 pairs when it has one.
C1_Original ==
    BuiltBlocks # {} =>
        Len(conversion_table_block) = IF blocks[i] THEN 18 ELSE 14

\* C1 as amended: for every block index, the table the loop of load_efficientnet
\* builds for that block has exactly 14 target->name pairs when the block has no
\* expand convolution and exactly 19 pairs when it has one (the 14, the expand
\* kernel and the four tensors of _bn0); its keys are distinct tensors of that
\* block.
C1_BlockTableSize ==
    (Building /\ BuiltBlocks # {}) =>
        /\ Len(conversion_table_block) = IF blocks[i] THEN 19 ELSE 14
        /\ Cardinality(Keys(conversion_table_block)) = Len(conversion_table_block)
        /\ \A e \in Items(conversion_table_block) : e.key[1] = i - 1
        /\ Keys(conversion_table_block) = BlockTensors(i - 1, blocks[i])

C1_Witness ==
    /\ pc = "loop"
    /\ i = 2
    /\ ~blocks[1]
    /\ blocks[2]
    /\ Len(conversion_table_block) = 19

\* The targets two partial tables name differently.
Conflicting == {p.key : p \in {e \in emitted : \E q \in emitted : q.key = e.key /\ q.val # e.val}}

\* In a table, every target appears exactly once.
UniqueKeys(d) == \A m, n \in 1..Len(d) : m # n => d[m].key # d[n].key

BatchNormName(p) ==
    CASE p = "bias" -> "beta" [] p = "weight" -> "gamma"
      [] p = "running_mean" -> "moving_mean" [] p = "running_var" -> "moving_variance"

StartsWith(s, pat) == Len(s) >= Len(pat) /\ SubSeq(s, 1, Len(pat)) = pat

BlockPrefix(b) ==
    CASE b = 0 -> "blocks_0/" [] b = 1 -> "blocks_1/" [] b = 2 -> "blocks_2/"
      [] b = 3 -> "blocks_3/" [] OTHER -> "blocks_" \o str(b) \o "/"

\* C8: for every block with an expand convolution the builder maps the expand
\* kernel to blocks_i/conv2d/kernel, the project kernel to
\* blocks_i/conv2d_1/kernel, and _bn0, _bn1, _bn2 to tpu_batch_normalization,
\* tpu_batch_normalization_1, tpu_batch_normalization_2; for every block
\* without one, the project kernel to blocks_i/conv2d/kernel and _bn1, _bn2 to
\* tpu_batch_normalization, tpu_batch_normalization_1.  The name of every item
\* of block i carries the index i.
C8_BlockNames ==
    Building => \A b \in BuiltBlocks :
        LET P       == BlockPrefix(b)
            name(t) == Get(conversion_table, t)
        IN  /\ blocks[b + 1] =>
                /\ name(T(b, "_expand_conv", "weight")) = P \o "conv2d/kernel"
                /\ name(T(b, "_project_conv", "weight")) = P \o "conv2d_1/kernel"
                /\ \A p \in BatchNormTensors :
                      /\ name(T(b, "_bn0", p)) = P \o "tpu_batch_normalization/" \o BatchNormName(p)
                      /\ name(T(b, "_bn1", p)) = P \o "tpu_batch_normalization_1/" \o BatchNormName(p)
                      /\ name(T(b, "_bn2", p)) = P \o "tpu_batch_normalization_2/" \o BatchNormName(p)
            /\ ~blocks[b + 1] =>
                /\ name(T(b, "_project_conv", "weight")) = P \o "conv2d/kernel"
                /\ \A p \in BatchNormTensors :
                      /\ name(T(b, "_bn1", p)) = P \o "tpu_batch_normalization/" \o BatchNormName(p)
                      /\ name(T(b, "_bn2", p)) = P \o "tpu_batch_normalization_1/" \o BatchNormName(p)
            /\ \A e \in Items(conversion_table) : e.key[1] = b => StartsWith(e.val, P)
            /\ b = i - 1 => \A e \in Items(conversion_table_block) :
                                /\ StartsWith(e.val, P)
                                /\ Get(conversion_table, e.key) = e.val

C8_Witness ==
    /\ pc = "load"
    /\ blocks = <<TRUE, FALSE, TRUE>> \/ blocks = <<FALSE, TRUE>>
    /\ Get(conversion_table, T(1, "_project_conv", "weight")) \in
          {"blocks_1/conv2d/kernel", "blocks_1/conv2d_1/kernel"}

\* C9: the conversion table's items of block 0 are exactly those the loop emits
\* for i = 0, whether or not block 0 has an expand convolution: every key of the
\* first-block table is a key of both loop variants.  The final table holds the
\* 12 items outside the blocks and the items of the loop's table of every block,
\* and nothing else.
C9_FirstBlockOverridden ==
    Building =>
    /\ Keys(conversion_table_for_first_block) \subseteq Keys(NoExpandTable(0))
    /\ Keys(conversion_table_for_first_block) \subseteq Keys(ExpandTable(0))
    /\ Len(conversion_table_for_first_block) = 14
    /\ (Building /\ 0 \in BuiltBlocks) =>
          {e \in Items(conversion_table) : e.key[1] = 0}
              = Items(IF blocks[1] THEN ExpandTable(0) ELSE NoExpandTable(0))
    /\ (pc = "load" /\ phase[1] = "todo") =>
          /\ work = conversion_table
          /\ Items(work) = Items(conversion_table_for_weights_outside_blocks)
                            \cup UNION {Items(BlockTable(blocks, b)) : b \in 0..(Len(blocks) - 1)}
          /\ Len(work) = 12 + 14 * Cardinality({b \in 1..Len(blocks) : ~blocks[b]})
                            + 19 * Cardinality({b \in 1..Len(blocks) : blocks[b]})
          /\ Cardinality({e \in Items(work) : e.key[1] = Top}) = 12

C9_Witness ==
    /\ pc = "load"
    /\ Len(blocks) = 2
    /\ blocks[1]
    /\ Len(work) = 12 + 19 + IF blocks[2] THEN 19 ELSE 14

(***************************************************************************)
(* Properties of the loader and of the driver.                             *)
(***************************************************************************)
\* The checkpoint variable of item k, and whether the checkpoint holds it.
NameOf(k) == TfParamName(model_name, work[k].val)

Held(k) == NameOf(k) \in DOMAIN store /\ store[NameOf(k)] # Absent

\* Every item of load_param's table is copied.
AllCopied == \A k \in 1..Len(work) : phase[k] = "done"

\* The value a tensor has before the call.
Before(t) == Zeros(TargetShape(t))

\* C3: an item whose source array, after the transposition chosen for its name,
\* has a shape other than the target tensor's (another rank, or another
\* dimension) makes load_param fail at that item, with an error that carries
\* both shapes and the full source name, and the item's target tensor still
\* holds the value it had before the call.
C3_ShapeMismatch ==
    /\ \A k \in 1..Len(work) :
          /\ phase[k] = "checked" => tf_param[k].shape = TargetShape(work[k].key)
          /\ phase[k] = "done" => param[work[k].key].shape = TargetShape(work[k].key)
    /\ (pc = "load" /\ ~AllCopied) =>
          LET k == Cursor
          IN  (phase[k] = "transposed" /\ tf_param[k].shape # TargetShape(work[k].key)) =>
                 param[work[k].key] = Before(work[k].key)
    /\ (error # None /\ error.kind = "AssertionError") =>
          LET k == Cursor
          IN  /\ pc = "aborted"
              /\ phase[k] = "transposed"
              /\ error.size = TargetShape(work[k].key)
              /\ error.shape = tf_param[k].shape
              /\ error.shape = Transposed(NameOf(k), store[NameOf(k)]).shape
              /\ error.size # error.shape
              /\ error.name = model_name \o "/" \o work[k].val
              /\ param[work[k].key] = Before(work[k].key)

C3_Witness ==
    /\ pc = "aborted"
    /\ error.kind = "AssertionError"
    /\ Len(error.size) # Len(error.shape)
    /\ Cursor > 1

\* C4: the output file is written only after every item of the conversion table
\* has been fetched, shape-checked and copied into its target; when a source
\* name is absent from the checkpoint or a shape check fails, the run ends
\* without ever writing the output file.
C4_Written ==
    /\ output # None =>
          /\ pc = "done"
          /\ error = None
          /\ work = conversion_table
          /\ AllCopied
          /\ \A k \in 1..Len(work) :
                /\ Held(k)
                /\ TransposeAccepts(NameOf(k), store[NameOf(k)])
                /\ Transposed(NameOf(k), store[NameOf(k)]).shape = TargetShape(work[k].key)
                /\ output[work[k].key] = Transposed(NameOf(k), store[NameOf(k)])
    /\ (error # None \/ pc = "aborted") =>
          /\ output = None
          /\ pc = "aborted"
          /\ error # None
          /\ ~ENABLED Next

\* C4, over a whole run: the state of C4_Written holds throughout, and the output
\* changes only in the step of torch.save, taken when every item has been copied.
C4_SaveLast == []C4_Written /\ [][output' # output => (pc = "save" /\ AllCopied)]_vars

C4_Witness ==
    /\ output # None
    /\ pc = "done"
    /\ Len(blocks) = 2

\* The layouts, element by element.  A convolution kernel (height, width, in,
\* out) becomes (out, in, height, width).
ConvLayout(a) ==
    LET s == <<a.shape[4], a.shape[3], a.shape[1], a.shape[2]>>
    IN  [shape |-> s, data |-> [x \in Indices(s) |-> a.data[<<x[3], x[4], x[2], x[1]>>]]]

\* A depthwise kernel (height, width, channels, multiplier) becomes
\* (channels, multiplier, height, width).
DepthwiseLayout(a) ==
    LET s == <<a.shape[3], a.shape[4], a.shape[1], a.shape[2]>>
    IN  [shape |-> s, data |-> [x \in Indices(s) |-> a.data[<<x[3], x[4], x[1], x[2]>>]]]

\* The dense kernel (in, out) becomes (out, in).
DenseLayout(a) ==
    LET s == <<a.shape[2], a.shape[1]>>
    IN  [shape |-> s, data |-> [x \in Indices(s) |-> a.data[<<x[2], x[1]>>]]]

\* The layout of the source of a target tensor, by the kind of the tensor.
LayoutFor(t, a) ==
    IF t[3] = "weight" /\ t[2] \in ConvModules THEN ConvLayout(a)
    ELSE IF t[3] = "weight" /\ t[2] = "_depthwise_conv" THEN DepthwiseLayout(a)
    ELSE IF t[3] = "weight" /\ t[2] = "_fc" THEN DenseLayout(a)
    ELSE a

\* The source of item k has the rank of its kind (any rank when it is neither a
\* kernel of a convolution nor the dense kernel).
RankOfKind(k) ==
    LET t == work[k].key
    IN  IF t[3] = "weight" /\ t[2] \in (ConvModules \cup {"_depthwise_conv"})
        THEN Len(store[NameOf(k)].shape) = 4
        ELSE (t[3] = "weight" /\ t[2] = "_fc") => Len(store[NameOf(k)].shape) = 2

PlainModelName ==
    /\ ~Contains(model_name, "conv")
    /\ ~Contains(model_name, "kernel")
    /\ ~Contains(model_name, "depthwise")

\* C5: when model_name contains none of conv, kernel, depthwise, load_param
\* applies to every source name of the builder one layout before the shape
\* check: a convolution kernel (stem, head, block, squeeze-excite) is permuted
\* by (3, 2, 0, 1) only; a depthwise kernel is permuted by (3, 2, 0, 1) and has
\* its first two axes exchanged; the dense kernel is transposed as a matrix;
\* every bias and batch-norm tensor is left as it is.  After the copy the
\* target equals the source under that layout, element by element.
C5_Layouts ==
    PlainModelName =>
        \A k \in 1..Len(work) :
            /\ (phase[k] \in {"transposed", "checked"} /\ RankOfKind(k)) =>
                  tf_param[k] = LayoutFor(work[k].key, store[NameOf(k)])
            /\ (phase[k] = "done" /\ (pc # "load" \/ k = Len(work) \/ phase[k + 1] = "todo")) =>
                  /\ RankOfKind(k)
                  /\ param[work[k].key] = LayoutFor(work[k].key, store[NameOf(k)])

C5_Witness ==
    /\ pc = "done"
    /\ PlainModelName
    /\ blocks = <<FALSE, TRUE>>
    /\ param[T(1, "_depthwise_conv", "weight")]
          = DepthwiseLayout(store[model_name \o "/blocks_1/depthwise_conv2d/depthwise_kernel"])
    /\ param[T(Top, "_fc", "weight")] = DenseLayout(store[model_name \o "/head/dense/kernel"])
    /\ param[T(Top, "_fc", "weight")].data[<<0, 1>>] # param[T(Top, "_fc", "weight")].data[<<1, 0>>]

\* The inverse of the permutation (3, 2, 0, 1).
ConvAxesInverse == <<2, 3, 1, 0>>

\* C6: for every array of four axes, the permutation (3, 2, 0, 1) of load_param
\* followed by the inverse permutation gives the array back, shape and elements.
C6_RoundTrip ==
    /\ \A key \in DOMAIN store :
              (store[key] # Absent /\ Len(store[key].shape) = 4) =>
                  NpTransposeAxes(NpTransposeAxes(store[key], ConvAxes), ConvAxesInverse)
                      = store[key]
    /\ \A k \in 1..Len(work) :
          (phase[k] \in {"transposed", "checked"} /\ IsConvKernel(NameOf(k))) =>
              NpTransposeAxes(IF IsDepthwise(NameOf(k))
                              THEN NpTransposeAxes(tf_param[k], DepthwiseAxes)
                              ELSE tf_param[k],
                              ConvAxesInverse) = store[NameOf(k)]

C6_Witness ==
    /\ pc = "load"
    /\ ~AllCopied
    /\ phase[Cursor] = "transposed"
    /\ NameOf(Cursor) = "efficientnet-b0/blocks_1/conv2d_1/kernel"
    /\ tf_param[Cursor].shape # store[NameOf(Cursor)].shape
    /\ tf_param[Cursor].data # store[NameOf(Cursor)].data

\* Every item of load_param's table succeeds.
AllSucceed ==
    \A k \in 1..Len(work) :
        /\ Held(k)
        /\ TransposeAccepts(NameOf(k), store[NameOf(k)])
        /\ Transposed(NameOf(k), store[NameOf(k)]).shape = TargetShape(work[k].key)

\* C7: when every item succeeds, the value of every target tensor is the same
\* whatever the order in which the items are processed and however the steps
\* of different items interleave: at every moment the tensor of an item holds
\* its converted source if the item is copied and its value before the call
\* if not, whatever the other items have done.
C7_AnyOrder ==
    AllSucceed =>
        /\ pc \in {"load", "save"}
        /\ pc = "save" => AllCopied
        /\ \A k \in 1..Len(work) :
              /\ phase[k] = "done" =>
                    param[work[k].key] = Transposed(NameOf(k), store[NameOf(k)])
              /\ phase[k] # "done" => param[work[k].key] = Before(work[k].key)
              /\ phase[k] = "fetched" => tf_param[k] = store[NameOf(k)]
              /\ phase[k] \in {"transposed", "checked"} =>
                    tf_param[k] = Transposed(NameOf(k), store[NameOf(k)])

C7_Witness ==
    /\ AllSucceed
    /\ phase[1] = "fetched"
    /\ phase[2] = "done"
    /\ param[work[2].key] # Before(work[2].key)
    /\ param[work[1].key] = Before(work[1].key)

\* C10: load_param undoes nothing.  When it aborts at an item, the target of
\* every item processed before holds its converted checkpoint value, the target
\* of that item and of every item not yet processed holds the value it had
\* before the call, and the checkpoint is unchanged; a tensor of the model that
\* is no key of the table is never written.
C10_Frame ==
    /\ (pc = "aborted" /\ work # <<>>) =>
          LET c == Cursor
          IN  \A k \in 1..Len(work) :
                  IF k < c
                  THEN /\ phase[k] = "done"
                       /\ param[work[k].key] = Transposed(NameOf(k), store[NameOf(k)])
                  ELSE /\ phase[k] = IF k = c THEN phase[c] ELSE "todo"
                       /\ param[work[k].key] = Before(work[k].key)
    /\ \A t \in DOMAIN param : (\A k \in 1..Len(work) : work[k].key # t) => param[t] = Before(t)
    /\ T(Top, "_bn0", "num_batches_tracked") \in DOMAIN param

\* C10, over a whole run: the state of C10_Frame holds throughout, no step
\* changes the checkpoint, and the target of an item changes only in the copy
\* of that item, after its shape check has passed.
C10_NoRollback ==
    /\ []C10_Frame
    /\ [][/\ \A nm \in DOMAIN store : nm \in DOMAIN store' /\ store'[nm] = store[nm]
          /\ \A k \in 1..Len(work) :
                param'[work[k].key] # param[work[k].key] => (phase[k] = "checked" /\ phase'[k] = "done")]_vars

C10_Witness ==
    /\ pc = "aborted"
    /\ error.kind = "NotFoundError"
    /\ Cursor = 3
    /\ param[work[2].key] # Before(work[2].key)
    /\ param[work[4].key] = Before(work[4].key)

====
